---- MODULE Spec2Model ----
(***************************************************************************)
(* Model of the DAPF data-preparation scripts:                             *)
(*   src/data/build_adress_csvs.py    (CHAT extraction, exact-id join)     *)
(*   src/data/build_ccc_labeled_csv.py (Transcriber XML, name-based join)  *)
(*   src/data/align_labels.py         (label normalisation)                *)
(* Text is modelled as sequences of one-character strings, so that         *)
(* stripping, case folding, splitting and pattern matching are computed.   *)
(***************************************************************************)
EXTENDS Integers, Sequences, FiniteSets, TLC

VARIABLES
    prog,          \* which script this behaviour runs
    pc,            \* position inside the running script
    \* build_adress_csvs.clean_chat_text
    raw,           \* the raw transcript
    keep_par,      \* keep *PAR: turns
    keep_inv,      \* keep *INV: turns
    lines,         \* raw.splitlines()
    idx,           \* number of lines the loop has consumed
    kept,          \* list of kept utterances
    current_keep,  \* inside a kept speaker utterance
    text,          \* the returned text
    \* build_adress_csvs.main
    train_fs,      \* what --train_root holds
    test_fs,       \* what --test_root holds
    ad_keep_inv,   \* --keep_inv
    train_df,      \* the train table
    test_df,       \* the test table
    train_built,   \* the train table as build_from_transcription_root returned it
    test_built,    \* the test table as build_from_transcription_root returned it
    train_ratio,   \* the printed [train] empty text ratio, <<empty, rows>>
    test_ratio,    \* the printed [test] empty text ratio, <<empty, rows>>
    train_out,     \* adress-train_all.csv (NotWritten until written)
    test_out,      \* adress-test_all.csv (NotWritten until written)
    \* build_ccc_labeled_csv.main
    participants_csv,  \* rows of --participants_csv
    transcripts_csv,   \* rows of --transcripts_csv
    zip,           \* members of --transcripts_zip
    p,             \* the participants frame
    tmap,          \* the transcript mapping frame
    ti,            \* number of tmap rows the loop has consumed
    rows,          \* rows collected by the loop
    out,           \* DataFrame(rows) without duplicate filenames
    out_csv,       \* the file --out_csv (NotWritten until written)
    \* align_labels.main / process_file
    csv_file,      \* the CSV on disk: Missing, NoLabelColumn, or its label column
    dry_run,       \* --dry_run
    df_label,      \* df[label_col] after normalisation
    info,          \* the result record of the file
    \* align_labels.normalize_label
    nl_x,          \* the argument
    nl_y,          \* normalize_label(nl_x)
    nl_z           \* normalize_label(nl_y)

chatVars == <<raw, keep_par, keep_inv, lines, idx, kept, current_keep, text>>

adVars == <<train_fs, test_fs, ad_keep_inv, train_df, test_df,
            train_built, test_built, train_ratio, test_ratio, train_out, test_out>>

cccVars == <<participants_csv, transcripts_csv, zip, p, tmap, ti, rows, out, out_csv>>

alignVars == <<csv_file, dry_run, df_label, info>>

normVars == <<nl_x, nl_y, nl_z>>

vars == <<prog, pc, chatVars, adVars, cccVars, alignVars, normVars>>

\* a file that has not been written
NotWritten == [written |-> FALSE, data |-> <<>>]

Written(d) == [written |-> TRUE, data |-> d]

NaN == "<NaN>"

\* a null in a column of text
NaNText == <<"<NaN>">>

NoColumn == "<no column>"

None == "<None>"

\* a metadata file that does not exist, and one that holds the rows d
Absent == [exists |-> FALSE, data |-> <<>>]

MetaFile(d) == [exists |-> TRUE, data |-> d]

NoCorpus ==
    [src |-> "none", layout |-> "none", cc |-> <<>>, cd |-> <<>>, flat |-> <<>>,
     cc_meta |-> Absent, cd_meta |-> Absent, meta |-> Absent]

\* the variables of a script that is not the one running
ChatIdle ==
    /\ raw = <<>> /\ keep_par = FALSE /\ keep_inv = FALSE /\ lines = <<>>
    /\ idx = 0 /\ kept = <<>> /\ current_keep = FALSE /\ text = <<>>

AdIdle ==
    /\ train_fs = NoCorpus /\ test_fs = NoCorpus /\ ad_keep_inv = FALSE
    /\ train_df = <<>> /\ test_df = <<>> /\ train_built = <<>> /\ test_built = <<>>
    /\ train_ratio = <<0, 0>> /\ test_ratio = <<0, 0>>
    /\ train_out = NotWritten /\ test_out = NotWritten

CccIdle ==
    /\ participants_csv = <<>> /\ transcripts_csv = <<>> /\ zip = <<>>
    /\ p = <<>> /\ tmap = <<>> /\ ti = 0 /\ rows = <<>> /\ out = <<>>
    /\ out_csv = NotWritten

AlignIdle ==
    /\ csv_file = [status |-> "missing", col |-> <<>>] /\ dry_run = FALSE
    /\ df_label = <<>>
    /\ info = [status |-> "none", changed |-> 0, remaining_other_labels |-> <<>>]

NormIdle == nl_x = <<>> /\ nl_y = <<>> /\ nl_z = <<>>

(***************************************************************************)
(* Characters and string helpers (Python str / re semantics on the         *)
(* alphabet the model uses).                                               *)
(***************************************************************************)
WS == {" ", "\t", "\n", "\r", "\f"}

CtrlChars == {"\t", "\n", "\r", "\f"}

LineBreaks == {"\n", "\r", "\f"}

Digits == {"0", "1", "2", "3", "4", "5", "6", "7", "8", "9"}

Upper == {"A", "B", "C", "D", "E", "F", "G", "H", "I", "J", "K", "L", "M",
          "N", "O", "P", "Q", "R", "S", "T", "U", "V", "W", "X", "Y", "Z"}

RECURSIVE RStrip(_)
RStrip(s) ==
    IF s = <<>> THEN s
    ELSE IF s[Len(s)] \in WS THEN RStrip(SubSeq(s, 1, Len(s) - 1)) ELSE s

RECURSIVE LStrip(_)
LStrip(s) ==
    IF s = <<>> THEN s
    ELSE IF s[1] \in WS THEN LStrip(Tail(s)) ELSE s

Strip(s) == LStrip(RStrip(s))

\* sep.join(parts)
RECURSIVE Join(_, _)
Join(parts, sep) ==
    IF parts = <<>> THEN <<>>
    ELSE IF Len(parts) = 1 THEN parts[1]
    ELSE parts[1] \o sep \o Join(Tail(parts), sep)

\* str.splitlines(): a break ends the current line (an empty one too); a
\* trailing break opens no further line; "\r\n" is one break.
RECURSIVE SplitAcc(_, _, _)
SplitAcc(s, cur, acc) ==
    IF s = <<>> THEN (IF cur = <<>> THEN acc ELSE Append(acc, cur))
    ELSE IF s[1] = "\r" /\ Len(s) >= 2 /\ s[2] = "\n"
         THEN SplitAcc(Tail(Tail(s)), <<>>, Append(acc, cur))
    ELSE IF s[1] \in LineBreaks THEN SplitAcc(Tail(s), <<>>, Append(acc, cur))
    ELSE SplitAcc(Tail(s), Append(cur, s[1]), acc)

SplitLines(s) == SplitAcc(s, <<>>, <<>>)

\* re.sub(r"[\x00-\x1F\x7F]", " ", s)
ReplaceCtrl(s) == [k \in 1..Len(s) |-> IF s[k] \in CtrlChars THEN " " ELSE s[k]]

\* length of the maximal run of digits at the head of s
RECURSIVE DigitRun(_)
DigitRun(s) ==
    IF s = <<>> \/ s[1] \notin Digits THEN 0 ELSE 1 + DigitRun(Tail(s))

\* length of the match of \d+_\d+ at the head of s (0: no match)
TimecodeAt(s) ==
    LET a == DigitRun(s) IN
    IF a = 0 \/ Len(s) < a + 2 \/ s[a + 1] # "_" THEN 0
    ELSE LET b == DigitRun(SubSeq(s, a + 2, Len(s))) IN
         IF b = 0 THEN 0 ELSE a + 1 + b

\* re.sub(r"\d+_\d+", " ", s)
RECURSIVE RemoveTimecodes(_)
RemoveTimecodes(s) ==
    IF s = <<>> THEN s
    ELSE LET m == TimecodeAt(s) IN
         IF m > 0 THEN <<" ">> \o RemoveTimecodes(SubSeq(s, m + 1, Len(s)))
         ELSE <<s[1]>> \o RemoveTimecodes(Tail(s))

\* re.sub(r"\s+", " ", s)
RECURSIVE CollapseWS(_)
CollapseWS(s) ==
    IF s = <<>> THEN s
    ELSE IF s[1] \in WS
         THEN <<" ">> \o CollapseWS(LStrip(s))
         ELSE <<s[1]>> \o CollapseWS(Tail(s))

StartsWith(s, c) == Len(s) >= 1 /\ s[1] = c

UpperSeq == <<"A", "B", "C", "D", "E", "F", "G", "H", "I", "J", "K", "L", "M",
              "N", "O", "P", "Q", "R", "S", "T", "U", "V", "W", "X", "Y", "Z">>

LowerSeq == <<"a", "b", "c", "d", "e", "f", "g", "h", "i", "j", "k", "l", "m",
              "n", "o", "p", "q", "r", "s", "t", "u", "v", "w", "x", "y", "z">>

LowerChar(c) ==
    IF c \in Upper THEN LowerSeq[CHOOSE k \in 1..Len(UpperSeq) : UpperSeq[k] = c] ELSE c

\* str.lower()
Lower(s) == [k \in 1..Len(s) |-> LowerChar(s[k])]

\* s.startswith(t), s.endswith(t), t in s
HasPrefix(s, t) == Len(s) >= Len(t) /\ SubSeq(s, 1, Len(t)) = t

HasSuffix(s, t) == Len(s) >= Len(t) /\ SubSeq(s, Len(s) - Len(t) + 1, Len(s)) = t

Contains(s, t) == \E k \in 0..(Len(s) - Len(t)) : SubSeq(s, k + 1, k + Len(t)) = t

\* s.replace(a, b) for a single character a
ReplaceChar(s, a, b) == [k \in 1..Len(s) |-> IF s[k] = a THEN b ELSE s[k]]

(***************************************************************************)
(* clean_chat_text                                                         *)
(***************************************************************************)
\* a line that starts with "@" or "%"
IsHeader(ln) == StartsWith(ln, "@") \/ StartsWith(ln, "%")

\* re.match(r"^\*([A-Z]{3}):\s*(.*)$", ln)
SpeakerMatch(ln) ==
    /\ Len(ln) >= 5
    /\ ln[1] = "*"
    /\ ln[2] \in Upper /\ ln[3] \in Upper /\ ln[4] \in Upper
    /\ ln[5] = ":"

Spk(ln) == SubSeq(ln, 2, 4)

Utt(ln) == LStrip(SubSeq(ln, 6, Len(ln)))

PAR == <<"P", "A", "R">>

INV == <<"I", "N", "V">>

\* the speaker branch: is this turn kept?
KeepsTurn(spk, kp, ki) == (spk = PAR /\ kp) \/ (spk = INV /\ ki)

\* the continuation branch
AppendsContinuation_NoKeepCheck(ln, ck) == StartsWith(ln, "\t") \/ StartsWith(ln, " ")

AppendsContinuation(ln, ck) == (StartsWith(ln, "\t") \/ StartsWith(ln, " ")) /\ ck

\* current_keep after a header/annotation line
HeaderKeep_Unchanged(ck) == ck

HeaderKeep(ck) == FALSE

\* one iteration of the loop over raw.splitlines()
LoopBody(st, rawln, kp, ki) ==
    LET ln == RStrip(rawln) IN
    IF IsHeader(ln)
    THEN [kept |-> st.kept, current_keep |-> HeaderKeep(st.current_keep)]
    ELSE IF SpeakerMatch(ln)
    THEN IF KeepsTurn(Spk(ln), kp, ki)
         THEN [kept |-> Append(st.kept, Utt(ln)), current_keep |-> TRUE]
         ELSE [kept |-> st.kept, current_keep |-> FALSE]
    ELSE IF AppendsContinuation(ln, st.current_keep)
    THEN [kept |-> Append(st.kept, Strip(ln)), current_keep |-> st.current_keep]
    ELSE st

\* the tail of the function: join, strip control characters and timecodes,
\* collapse whitespace
PostProcess(k) == Strip(CollapseWS(RemoveTimecodes(ReplaceCtrl(Join(k, <<" ">>)))))

RECURSIVE RunLoop(_, _, _, _)
RunLoop(st, ls, kp, ki) ==
    IF ls = <<>> THEN st ELSE RunLoop(LoopBody(st, ls[1], kp, ki), Tail(ls), kp, ki)

\* the whole function on a raw string
clean_chat_text(r, kp, ki) ==
    IF Strip(r) = <<>> THEN <<>>
    ELSE PostProcess(RunLoop([kept |-> <<>>, current_keep |-> FALSE],
                             SplitLines(r), kp, ki).kept)

(***************************************************************************)
(* Inputs of clean_chat_text: transcripts assembled from sample lines.     *)
(***************************************************************************)
MaxLines == 4

SampleLines == {
    <<"@", "B", "e", "g", "i", "n">>,
    <<"*", "P", "A", "R", ":", "\t", "h", "e", "l", "l", "o", " ", "t", "h", "e", "r", "e">>,
    <<"%", "m", "o", "r", ":", "\t", "n", "o", "u", "n">>,
    <<"*", "I", "N", "V", ":", "\t", "h", "i">>,
    <<"*", "M", "O", "T", ":", " ", "m", "a">>,
    <<"\t", "a", "n", "d", " ", "0", "_", "3", "9", " ", "s", "o", " ">>,
    <<"o", "k">>
}

RawInputs ==
    {Join(ls, <<"\n">>) : ls \in UNION {[1..n -> SampleLines] : n \in 0..MaxLines}}

InitChat ==
    /\ prog = "chat"
    /\ pc = "chat_start"
    /\ raw \in RawInputs
    /\ keep_par \in BOOLEAN
    /\ keep_inv \in BOOLEAN
    /\ lines = <<>> /\ idx = 0 /\ kept = <<>> /\ current_keep = FALSE /\ text = <<>>
    /\ AdIdle /\ CccIdle /\ AlignIdle /\ NormIdle

\* lines 43-50: the early returns, then kept = [], current_keep = False
ChatEnter ==
    /\ prog = "chat" /\ pc = "chat_start"
    /\ IF Strip(raw) = <<>>
       THEN /\ pc' = "chat_done"
            /\ UNCHANGED <<lines, idx, kept, current_keep, text>>
       ELSE /\ pc' = "chat_loop"
            /\ lines' = SplitLines(raw)
            /\ idx' = 0 /\ kept' = <<>> /\ current_keep' = FALSE
            /\ UNCHANGED text
    /\ UNCHANGED <<prog, raw, keep_par, keep_inv, adVars, cccVars, alignVars, normVars>>

\* lines 52-76: one line of the loop
ChatLine ==
    /\ prog = "chat" /\ pc = "chat_loop" /\ idx < Len(lines)
    /\ LET st == LoopBody([kept |-> kept, current_keep |-> current_keep],
                          lines[idx + 1], keep_par, keep_inv) IN
         /\ kept' = st.kept
         /\ current_keep' = st.current_keep
    /\ idx' = idx + 1
    /\ UNCHANGED <<prog, pc, raw, keep_par, keep_inv, lines, text>>
    /\ UNCHANGED <<adVars, cccVars, alignVars, normVars>>

\* lines 78-84: the loop is over
ChatFinish ==
    /\ prog = "chat" /\ pc = "chat_loop" /\ idx = Len(lines)
    /\ text' = PostProcess(kept)
    /\ pc' = "chat_done"
    /\ UNCHANGED <<prog, raw, keep_par, keep_inv, lines, idx, kept, current_keep>>
    /\ UNCHANGED <<adVars, cccVars, alignVars, normVars>>

NextChat == ChatEnter \/ ChatLine \/ ChatFinish

SpecChat == InitChat /\ [][NextChat]_vars

(***************************************************************************)
(* build_adress_csvs.py: the exact-id pipeline                             *)
(***************************************************************************)
\* re.search(r"(S\d+)", x): the leftmost "S" followed by digits, with all of them
RECURSIVE FindSid(_)
FindSid(s) ==
    IF s = <<>> THEN <<>>
    ELSE IF s[1] = "S" /\ DigitRun(Tail(s)) > 0
         THEN SubSeq(s, 1, 1 + DigitRun(Tail(s)))
         ELSE FindSid(Tail(s))

norm_id(x) ==
    LET t == Strip(x) IN
    IF FindSid(t) # <<>> THEN FindSid(t) ELSE t

\* read_transcripts: one row per file of the folder, in sorted order
read_transcripts(folder, label) ==
    [k \in 1..Len(folder) |->
        [filename |-> norm_id(folder[k].stem), text_raw |-> folder[k].raw,
         label |-> label]]

\* DataFrame.drop_duplicates(key): the first row of each key value stays
RECURSIVE DropDupFrom(_, _, _)
DropDupFrom(rs, key, seen) ==
    IF rs = <<>> THEN <<>>
    ELSE IF rs[1][key] \in seen THEN DropDupFrom(Tail(rs), key, seen)
    ELSE <<rs[1]>> \o DropDupFrom(Tail(rs), key, seen \cup {rs[1][key]})

DropDup(rs, key) == DropDupFrom(rs, key, {})

\* the rows build_from_transcription_root collects
TranscriptRows(fs) ==
    IF fs.layout = "split"
    THEN read_transcripts(fs.cc, "ct") \o read_transcripts(fs.cd, "AD")
    ELSE read_transcripts(fs.flat, None)

\* build_from_transcription_root on a non-empty list of rows
build_from_transcription_root(fs, keep) ==
    LET withText == [k \in 1..Len(TranscriptRows(fs)) |->
            LET r == TranscriptRows(fs)[k] IN
            [filename |-> r.filename, text_raw |-> r.text_raw, label |-> r.label,
             text |-> clean_chat_text(r.text_raw, TRUE, keep),
             age |-> NoColumn, gender |-> NoColumn, mmse |-> NoColumn]]
    IN DropDup(withText, "filename")

\* read_meta_semicolon: id normalised, the other columns kept as strings
read_meta_semicolon(file, has_mmse) ==
    [k \in 1..Len(file) |->
        [filename |-> norm_id(file[k].id), age |-> file[k].age,
         gender |-> file[k].gender,
         mmse |-> IF has_mmse THEN file[k].mmse ELSE NoColumn]]

WithLabel(m, label) ==
    [k \in 1..Len(m) |-> [filename |-> m[k].filename, age |-> m[k].age,
                          gender |-> m[k].gender, mmse |-> m[k].mmse,
                          label |-> label]]

\* the rows of meta that match row r on the join key
Matches(r, meta, on_label) ==
    SelectSeq(meta, LAMBDA m : m.filename = r.filename
                               /\ (on_label => m.label = r.label))

\* the rows a left row gives in DataFrame.merge(how="left")
LeftRows_Inner(r, meta, on_label, has_mmse) ==
    LET ms == Matches(r, meta, on_label) IN
    [k \in 1..Len(ms) |-> [r EXCEPT !.age = ms[k].age, !.gender = ms[k].gender,
                                    !.mmse = ms[k].mmse]]

LeftRows(r, meta, on_label, has_mmse) ==
    LET ms == Matches(r, meta, on_label) IN
    IF ms = <<>>
    THEN << [r EXCEPT !.age = NaN, !.gender = NaN,
                      !.mmse = IF has_mmse THEN NaN ELSE NoColumn] >>
    ELSE [k \in 1..Len(ms) |-> [r EXCEPT !.age = ms[k].age, !.gender = ms[k].gender,
                                         !.mmse = ms[k].mmse]]

\* df.merge(meta, on=..., how="left")
RECURSIVE MergeLeft(_, _, _, _)
MergeLeft(df, meta, on_label, has_mmse) ==
    IF df = <<>> THEN <<>>
    ELSE LeftRows(df[1], meta, on_label, has_mmse)
         \o MergeLeft(Tail(df), meta, on_label, has_mmse)

\* the frames main collects from cc_meta_data.txt and cd_meta_data.txt
MetaFrames(fs) ==
    (IF ~fs.cc_meta.exists THEN <<>>
     ELSE WithLabel(read_meta_semicolon(fs.cc_meta.data, TRUE), "ct"))
    \o (IF ~fs.cd_meta.exists THEN <<>>
        ELSE WithLabel(read_meta_semicolon(fs.cd_meta.data, TRUE), "AD"))

\* test_df["label"].isna().all() -> "unknown"
Placeholder(df) ==
    IF \A k \in 1..Len(df) : df[k].label = None
    THEN [k \in 1..Len(df) |-> [df[k] EXCEPT !.label = "unknown"]]
    ELSE df

\* (df["text"].fillna("").str.strip() == "").mean(), as the pair <<empty, rows>>
EmptyRatio(df) ==
    <<Cardinality({k \in 1..Len(df) : Strip(df[k].text) = <<>>}), Len(df)>>

(***************************************************************************)
(* Inputs of build_adress_csvs.py: transcript folders and metadata files.  *)
(***************************************************************************)
MaxFiles == 2

MaxMeta == 2

\* the transcript files a folder may hold, in sorted path order
FilePool == <<
    [stem |-> <<"S", "1">>,
     raw |-> <<"*", "P", "A", "R", ":", "\t", "h", "e", "l", "l", "o", " ", "t", "h", "e", "r", "e">>],
    [stem |-> <<"S", "1", "b">>,
     raw |-> <<"*", "I", "N", "V", ":", "\t", "h", "i">>],
    [stem |-> <<"S", "2">>,
     raw |-> <<"@", "B", "e", "g", "i", "n", "\n", "*", "P", "A", "R", ":", "\t", "h", "i", " ", "0", "_", "3", "9">>] >>

\* the rows a metadata file may hold
MetaPool == {
    [id |-> <<"S", "1">>, age |-> "74", gender |-> "male", mmse |-> "29"],
    [id |-> <<" ", "S", "2">>, age |-> "68", gender |-> "female", mmse |-> "17"] }

RECURSIVE PickFrom(_, _, _)
PickFrom(pool, S, k) ==
    IF k > Len(pool) THEN <<>>
    ELSE (IF k \in S THEN <<pool[k]>> ELSE <<>>) \o PickFrom(pool, S, k + 1)

Folders ==
    {PickFrom(FilePool, S, 1) :
        S \in {T \in SUBSET (1..Len(FilePool)) : Cardinality(T) <= MaxFiles}}

MetaFiles ==
    {Absent} \cup {MetaFile(d) : d \in UNION {[1..n -> MetaPool] : n \in 0..MaxMeta}}

TrainCorpora ==
    {NoCorpus, [NoCorpus EXCEPT !.src = "zip"]}
    \cup {[NoCorpus EXCEPT !.src = "zip", !.layout = "split", !.cc = a, !.cd = b,
                           !.cc_meta = m, !.cd_meta = n] :
            a \in Folders, b \in Folders,
            m \in MetaFiles, n \in MetaFiles}
    \cup {[NoCorpus EXCEPT !.src = "zip", !.layout = "flat", !.flat = a,
                           !.cc_meta = m, !.cd_meta = n] :
            a \in Folders,
            m \in MetaFiles, n \in MetaFiles}

TestCorpora ==
    {NoCorpus, [NoCorpus EXCEPT !.src = "zip"]}
    \cup {[NoCorpus EXCEPT !.src = s, !.layout = "split", !.cc = a, !.cd = b,
                           !.meta = m] :
            s \in {"zip", "dir"}, a \in Folders, b \in Folders,
            m \in MetaFiles}
    \cup {[NoCorpus EXCEPT !.src = s, !.layout = "flat", !.flat = a, !.meta = m] :
            s \in {"zip", "dir"}, a \in Folders, m \in MetaFiles}

\* one plain corpus of each kind, paired with every corpus of the other kind
PlainTrain ==
    [NoCorpus EXCEPT !.src = "zip", !.layout = "split",
                     !.cc = <<FilePool[1]>>, !.cd = <<FilePool[3]>>]

PlainTest ==
    [NoCorpus EXCEPT !.src = "dir", !.layout = "flat", !.flat = <<FilePool[1]>>]

InitAdress ==
    /\ prog = "adress"
    /\ pc = "ad_start"
    /\ \/ train_fs \in TrainCorpora /\ test_fs = PlainTest
       \/ train_fs = PlainTrain /\ test_fs \in TestCorpora
    /\ ad_keep_inv \in BOOLEAN
    /\ train_df = <<>> /\ test_df = <<>>
    /\ train_built = <<>> /\ test_built = <<>>
    /\ train_ratio = <<0, 0>> /\ test_ratio = <<0, 0>>
    /\ train_out = NotWritten /\ test_out = NotWritten
    /\ ChatIdle /\ CccIdle /\ AlignIdle /\ NormIdle

\* an exception leaves main: nothing further runs, nothing is written
AdCrash ==
    /\ pc' = "ad_crashed"
    /\ UNCHANGED <<prog, adVars>>

AdOthers == UNCHANGED <<chatVars, cccVars, alignVars, normVars>>

\* lines 156-164: the archive must exist and hold transcription/; a table built
\* from no file has no text_raw column
AdTrainBuild ==
    /\ AdOthers
    /\ prog = "adress" /\ pc = "ad_start"
    /\ IF train_fs.src = "none" \/ train_fs.layout = "none"
          \/ TranscriptRows(train_fs) = <<>>
       THEN AdCrash
       ELSE /\ train_built' = build_from_transcription_root(train_fs, ad_keep_inv)
            /\ train_df' = train_built'
            /\ pc' = "ad_train_built"
            /\ UNCHANGED <<prog, train_fs, test_fs, ad_keep_inv, test_df, test_built,
                           train_ratio, test_ratio, train_out, test_out>>

\* lines 166-184: attach the train metadata; an empty metadata file cannot be parsed
AdTrainMerge ==
    /\ AdOthers
    /\ prog = "adress" /\ pc = "ad_train_built"
    /\ IF train_fs.cc_meta = MetaFile(<<>>) \/ train_fs.cd_meta = MetaFile(<<>>)
       THEN AdCrash
       ELSE /\ train_df' = IF MetaFrames(train_fs) # <<>>
                           THEN MergeLeft(train_df, MetaFrames(train_fs), TRUE, TRUE)
                           ELSE train_df
            /\ train_ratio' = EmptyRatio(train_df')
            /\ pc' = "ad_train_merged"
            /\ UNCHANGED <<prog, train_fs, test_fs, ad_keep_inv, test_df, train_built,
                           test_built, test_ratio, train_out, test_out>>

\* lines 186-203
AdTestBuild ==
    /\ AdOthers
    /\ prog = "adress" /\ pc = "ad_train_merged"
    /\ IF test_fs.src = "none" \/ test_fs.layout = "none"
          \/ TranscriptRows(test_fs) = <<>>
       THEN AdCrash
       ELSE /\ test_built' = build_from_transcription_root(test_fs, ad_keep_inv)
            /\ test_df' = test_built'
            /\ pc' = "ad_test_built"
            /\ UNCHANGED <<prog, train_fs, test_fs, ad_keep_inv, train_df, train_built,
                           train_ratio, test_ratio, train_out, test_out>>

\* lines 205-212
AdTestMerge ==
    /\ AdOthers
    /\ prog = "adress" /\ pc = "ad_test_built"
    /\ IF test_fs.meta = MetaFile(<<>>)
       THEN AdCrash
       ELSE /\ test_df' = IF test_fs.meta.exists
                          THEN MergeLeft(test_df, read_meta_semicolon(test_fs.meta.data, FALSE),
                                         FALSE, FALSE)
                          ELSE test_df
            /\ test_ratio' = EmptyRatio(test_df')
            /\ pc' = "ad_test_merged"
            /\ UNCHANGED <<prog, train_fs, test_fs, ad_keep_inv, train_df, train_built,
                           test_built, train_ratio, train_out, test_out>>

\* lines 214-227
AdWrite ==
    /\ AdOthers
    /\ prog = "adress" /\ pc = "ad_test_merged"
    /\ train_out' = Written(train_df)
    /\ test_df' = Placeholder(test_df)
    /\ test_out' = Written(test_df')
    /\ pc' = "ad_done"
    /\ UNCHANGED <<prog, train_fs, test_fs, ad_keep_inv, train_df, train_built,
                   test_built, train_ratio, test_ratio>>

NextAdress == AdTrainBuild \/ AdTrainMerge \/ AdTestBuild \/ AdTestMerge \/ AdWrite

SpecAdress == InitAdress /\ [][NextAdress]_vars

(***************************************************************************)
(* build_ccc_labeled_csv.py: the name-based pipeline                       *)
(***************************************************************************)
Titles == {<<"m", "r">>, <<"m", "r", "s">>, <<"m", "s">>, <<"d", "r">>}

\* re.sub(r"^(mr|mrs|ms|dr)\.?\s+", "", s)
DropTitle(s) ==
    LET after(t) == LET a == SubSeq(s, Len(t) + 1, Len(s)) IN
                    IF StartsWith(a, ".") THEN Tail(a) ELSE a
        hit == {t \in Titles : HasPrefix(s, t) /\ Len(after(t)) >= 1 /\ after(t)[1] \in WS}
    IN IF hit = {} THEN s ELSE LStrip(after(CHOOSE t \in hit : TRUE))

norm_name(s) == CollapseWS(DropTitle(Lower(Strip(s))))

\* fn.rsplit("/", 1)[-1]
RECURSIVE AfterLastSlash(_)
AfterLastSlash(s) ==
    IF \E k \in 1..Len(s) : s[k] = "/" THEN AfterLastSlash(Tail(s)) ELSE s

DropExt(fn, ext) ==
    IF HasSuffix(Lower(fn), ext) THEN SubSeq(fn, 1, Len(fn) - Len(ext)) ELSE fn

ExtTrs == <<".", "t", "r", "s">>

ExtTxt == <<".", "t", "x", "t">>

ExtCha == <<".", "c", "h", "a">>

norm_stem(fn) == DropExt(DropExt(DropExt(AfterLastSlash(Strip(fn)), ExtTrs), ExtTxt), ExtCha)

clean_text(s) == Strip(CollapseWS(s))

\* the text of one Turn: its parts joined, cleaned
TurnText(parts) == clean_text(Join(parts, <<" ">>))

\* extract_text_from_trs on a document that parses; a document is the list of
\* its Turn elements, a Turn the list of its non-empty text and tail strings
extract_text_from_trs(doc) ==
    LET chunks == SelectSeq([k \in 1..Len(doc.turns) |-> TurnText(doc.turns[k])],
                            LAMBDA t : t # <<>>)
    IN clean_text(Join(chunks, <<" ">>))

Alz == <<"a", "l", "z">>

label_from_condition_EmptyUnknown(cond) ==
    LET c == Lower(Strip(cond)) IN
    IF Contains(c, Alz) THEN "AD" ELSE IF c = <<>> THEN "unknown" ELSE "ct"

label_from_condition(cond) ==
    LET c == Lower(Strip(cond)) IN
    IF Contains(c, Alz) THEN "AD" ELSE "ct"

\* label_rank
label_rank(l) == CASE l = "AD" -> 2 [] l = "ct" -> 1 [] l = "unknown" -> 0

Interviewee == <<"i", "n", "t", "e", "r", "v", "i", "e", "w", "e", "e">>

\* lines 61-64: keep the interviewee rows, add pname_norm and label
ParticipantFrame(csv) ==
    LET sel == SelectSeq(csv, LAMBDA r : Strip(Lower(r.participant_role)) = Interviewee)
    IN [k \in 1..Len(sel) |->
          [participant |-> sel[k].participant,
           condition |-> sel[k].participant_condition_or_disease,
           participant_gender |-> sel[k].participant_gender,
           participant_age_range |-> sel[k].participant_age_range,
           pname_norm |-> norm_name(sel[k].participant),
           label |-> label_from_condition(sel[k].participant_condition_or_disease)]]

\* sort_values("rank", ascending=False): the sort is not stable, so rows of
\* equal rank come out in any order
SortedByRank_Unsorted(rs) == {rs}

SortedByRank(rs) ==
    LET n == Len(rs)
        perms == {f \in [1..n -> 1..n] : \A a, b \in 1..n : a # b => f[a] # f[b]}
    IN {[k \in 1..n |-> rs[f[k]]] :
          f \in {g \in perms : \A a, b \in 1..n :
                   a < b => label_rank(rs[g[a]].label) >= label_rank(rs[g[b]].label)}}

\* lines 72-82: stem and iname_norm, then the left merge with p on the name
TranscriptFrame(csv, pf) ==
    [k \in 1..Len(csv) |->
        LET iname == norm_name(csv[k].transcript_creator_interviewee)
            ms == SelectSeq(pf, LAMBDA r : r.pname_norm = iname)
        IN [stem |-> norm_stem(csv[k].transcript),
            iname_norm |-> iname,
            label |-> IF ms = <<>> THEN NaN ELSE ms[1].label,
            participant |-> IF ms = <<>> THEN NaNText ELSE ms[1].participant,
            participant_gender |-> IF ms = <<>> THEN NaN ELSE ms[1].participant_gender,
            participant_age_range |-> IF ms = <<>> THEN NaN ELSE ms[1].participant_age_range]]

\* the .trs members of the archive
TrsFiles(z) == SelectSeq(z, LAMBDA m : HasSuffix(Lower(m.name), ExtTrs))

\* zip_index = {norm_stem(n): n for n in trs_files}: a later member of the same
\* stem replaces an earlier one
InZipIndex(z, stem) == \E k \in 1..Len(TrsFiles(z)) : norm_stem(TrsFiles(z)[k].name) = stem

ZipMember(z, stem) ==
    LET t == TrsFiles(z)
        k == CHOOSE k \in 1..Len(t) :
               /\ norm_stem(t[k].name) = stem
               /\ \A m \in 1..Len(t) : norm_stem(t[m].name) = stem => m <= k
    IN t[k]

\* "if not text.strip(): continue"
SkipsText_Never(t) == FALSE

SkipsText(t) == Strip(t) = <<>>

\* lines 103-119: the row appended for a transcript with text
OutRow(r, t) ==
    [filename |-> r.stem, text |-> t,
     label |-> IF r.label = NaN THEN "unknown" ELSE r.label,
     interviewee |-> r.participant,
     age_range |-> r.participant_age_range, gender |-> r.participant_gender]

\* out[out["label"].isin(["ct", "AD"])]
Trainable(o) == SelectSeq(o, LAMBDA r : r.label \in {"ct", "AD"})

(***************************************************************************)
(* Inputs of build_ccc_labeled_csv.py                                      *)
(***************************************************************************)
MaxParticipants == 2

MaxTranscripts == 2

ParticipantPool == {
    [participant |-> <<"A", "n", "n">>,
     participant_role |-> <<"I", "n", "t", "e", "r", "v", "i", "e", "w", "e", "e">>,
     participant_condition_or_disease |-> <<"A", "L", "Z", "h", "e", "i", "m", "e", "r", "s">>,
     participant_gender |-> "f", participant_age_range |-> "70-79"],
    [participant |-> <<"M", "r", "s", ".", " ", "A", "N", "N", " ">>,
     participant_role |-> <<" ", "i", "n", "t", "e", "r", "v", "i", "e", "w", "e", "e">>,
     participant_condition_or_disease |-> <<>>,
     participant_gender |-> "f", participant_age_range |-> "60-69"],
    [participant |-> <<"B", "o", "b">>,
     participant_role |-> <<"I", "n", "t", "e", "r", "v", "i", "e", "w", "e", "e">>,
     participant_condition_or_disease |-> <<"d", "i", "a", "b", "e", "t", "e", "s">>,
     participant_gender |-> "m", participant_age_range |-> "80-89"],
    [participant |-> <<"B", "o", "b">>,
     participant_role |-> <<"I", "n", "t", "e", "r", "v", "i", "e", "w", "e", "r">>,
     participant_condition_or_disease |-> <<"a", "l", "z">>,
     participant_gender |-> "m", participant_age_range |-> "50-59"] }

TranscriptPool == {
    [transcript |-> <<"A", "_", "1", ".", "t", "x", "t">>,
     transcript_creator_interviewee |-> <<"a", "n", "n">>],
    [transcript |-> <<"d", "/", "B", "_", "1", ".", "T", "R", "S">>,
     transcript_creator_interviewee |-> <<"D", "r", " ", "B", "o", "b">>],
    [transcript |-> <<"A", "_", "1", ".", "c", "h", "a">>,
     transcript_creator_interviewee |-> <<"Z", "e", "d">>] }

\* documents: two turns with text, a turn of blanks only, and one that does
\* not parse
DocText == [parses |-> TRUE,
            turns |-> << <<<<"h", "i", " ">>, <<"\n", " ", "y", "o", "u">>>>, <<<<" ">>>> >>]

DocBlank == [parses |-> TRUE, turns |-> << <<<<" ", "\n">>>> >>]

DocBad == [parses |-> FALSE, turns |-> <<>>]

Docs == {DocText, DocBlank, DocBad}

NameA == <<"A", "_", "1", ".", "t", "r", "s">>

NameB == <<"x", "/", "B", "_", "1", ".", "t", "r", "s">>

NameNotes == <<"n", "o", "t", "e", "s", ".", "t", "x", "t">>

\* archives: A_1.trs always, B_1.trs and a non-transcript member sometimes
Zips ==
    {<<[name |-> NameA, doc |-> a]>> : a \in Docs}
    \cup {<<[name |-> NameA, doc |-> a], [name |-> NameNotes, doc |-> DocBad],
            [name |-> NameB, doc |-> b]>> : a \in {DocText, DocBlank}, b \in {DocText, DocBad}}

InitCCC ==
    /\ prog = "ccc"
    /\ pc = "ccc_start"
    /\ participants_csv \in UNION {[1..n -> ParticipantPool] : n \in 0..MaxParticipants}
    /\ transcripts_csv \in UNION {[1..n -> TranscriptPool] : n \in 0..MaxTranscripts}
    /\ zip \in Zips
    /\ p = <<>> /\ tmap = <<>> /\ ti = 0 /\ rows = <<>> /\ out = <<>>
    /\ out_csv = NotWritten
    /\ ChatIdle /\ AdIdle /\ AlignIdle /\ NormIdle

CccOthers == UNCHANGED <<chatVars, adVars, alignVars, normVars>>

\* lines 61-69: load the participants, rank them, keep one row per name
CccParticipants ==
    /\ CccOthers
    /\ prog = "ccc" /\ pc = "ccc_start"
    /\ \E sorted \in SortedByRank(ParticipantFrame(participants_csv)) :
          p' = DropDup(sorted, "pname_norm")
    /\ pc' = "ccc_participants"
    /\ UNCHANGED <<prog, participants_csv, transcripts_csv, zip, tmap, ti, rows, out, out_csv>>

\* lines 72-93: load the transcript mapping, join it, open the archive
CccTranscripts ==
    /\ CccOthers
    /\ prog = "ccc" /\ pc = "ccc_participants"
    /\ tmap' = TranscriptFrame(transcripts_csv, p)
    /\ ti' = 0
    /\ rows' = <<>>
    /\ pc' = "ccc_loop"
    /\ UNCHANGED <<prog, participants_csv, transcripts_csv, zip, p, out, out_csv>>

\* lines 94-119: one row of tmap; ET.fromstring raises on a document that does
\* not parse and nothing catches it
CccRow ==
    /\ CccOthers
    /\ prog = "ccc" /\ pc = "ccc_loop" /\ ti < Len(tmap)
    /\ LET r == tmap[ti + 1] IN
       IF ~InZipIndex(zip, r.stem)
       THEN /\ ti' = ti + 1 /\ UNCHANGED <<pc, rows>>
       ELSE IF ~ZipMember(zip, r.stem).doc.parses
       THEN /\ pc' = "ccc_parse_error" /\ UNCHANGED <<ti, rows>>
       ELSE LET t == extract_text_from_trs(ZipMember(zip, r.stem).doc) IN
            IF SkipsText(t)
            THEN /\ ti' = ti + 1 /\ UNCHANGED <<pc, rows>>
            ELSE /\ rows' = Append(rows, OutRow(r, t))
                 /\ ti' = ti + 1 /\ UNCHANGED pc
    /\ UNCHANGED <<prog, participants_csv, transcripts_csv, zip, p, tmap, out, out_csv>>

\* lines 121-133: DataFrame([]) has no "filename" column to deduplicate on
CccWrite ==
    /\ CccOthers
    /\ prog = "ccc" /\ pc = "ccc_loop" /\ ti = Len(tmap)
    /\ IF rows = <<>>
       THEN /\ pc' = "ccc_key_error" /\ UNCHANGED <<out, out_csv>>
       ELSE /\ out' = DropDup(rows, "filename")
            /\ out_csv' = Written(Trainable(out'))
            /\ pc' = "ccc_done"
    /\ UNCHANGED <<prog, participants_csv, transcripts_csv, zip, p, tmap, ti, rows>>

NextCCC == CccParticipants \/ CccTranscripts \/ CccRow \/ CccWrite

SpecCCC == InitCCC /\ [][NextCCC]_vars

\* both pipelines that build a table
SpecBuild == (InitAdress \/ InitCCC) /\ [][NextAdress \/ NextCCC]_vars

(***************************************************************************)
(* align_labels.py                                                         *)
(* Characters outside ASCII are written as their code point: "U+2019" is   *)
(* the curly apostrophe.                                                   *)
(***************************************************************************)
Healthy == <<"h", "e", "a", "l", "t", "h", "y">>

Dementia == <<"d", "e", "m", "e", "n", "t", "i", "a">>

HealthyKeys == {
    <<"c", "t">>,
    <<"c", "o", "n", "t", "r", "o", "l">>,
    <<"h", "c">>,
    <<"h", "e", "a", "l", "t", "h", "y">>,
    <<"0">> }

DementiaKeys == {
    <<"a", "d">>,
    <<"a", "l", "z">>,
    <<"a", "l", "z", "h", "e", "i", "m", "e", "r", "s">>,
    <<"a", "l", "z", "h", "e", "i", "m", "e", "r", "'", "s">>,
    <<"a", "l", "z", "h", "e", "i", "m", "e", "r", "U+00E2", "U+20AC", "U+2122", "s">>,
    <<"d", "e", "m", "e", "n", "t", "i", "a">>,
    <<"1">> }

\* LABEL_MAP.get(key, default), with an alias that maps to another alias
LabelMapGet_Alias(key, default) ==
    IF key \in HealthyKeys THEN Healthy
    ELSE IF key = <<"a", "d">> THEN <<"a", "l", "z">>
    ELSE IF key \in DementiaKeys THEN Dementia
    ELSE default

LabelMapGet(key, default) ==
    IF key \in HealthyKeys THEN Healthy
    ELSE IF key \in DementiaKeys THEN Dementia
    ELSE default

\* str(x) of a cell: the float nan of a missing cell prints as "nan"
Str(x) == IF x = NaNText THEN <<"n", "a", "n">> ELSE x

normalize_label(x) ==
    LET s == Strip(Str(x)) IN
    IF s = <<>> THEN s
    ELSE LabelMapGet(ReplaceChar(Strip(Lower(s)), "U+2019", "'"), s)

\* Series.fillna("").astype(str).str.strip()
Stripped(col) == [k \in 1..Len(col) |-> IF col[k] = NaNText THEN <<>> ELSE Strip(col[k])]

\* code point order of the characters the model sorts
CodePoints == <<"\t", "\n", "\f", "\r", " ", "'", "0", "1", "2", "3", "4", "5", "6", "7",
                "8", "9", "A", "B", "C", "D", "E", "F", "G", "H", "I", "J", "K", "L",
                "M", "N", "O", "P", "Q", "R", "S", "T", "U", "V", "W", "X", "Y", "Z",
                "_", "a", "b", "c", "d", "e", "f", "g", "h", "i", "j", "k", "l", "m",
                "n", "o", "p", "q", "r", "s", "t", "u", "v", "w", "x", "y", "z",
                "U+00E2", "U+2019", "U+20AC", "U+2122">>

Ord(c) == CHOOSE k \in 1..Len(CodePoints) : CodePoints[k] = c

\* a < b for strings
RECURSIVE StrLess(_, _)
StrLess(a, b) ==
    IF b = <<>> THEN FALSE
    ELSE IF a = <<>> THEN TRUE
    ELSE IF a[1] = b[1] THEN StrLess(Tail(a), Tail(b))
    ELSE Ord(a[1]) < Ord(b[1])

\* sorted(S)
RECURSIVE SortedStrings(_)
SortedStrings(S) ==
    IF S = {} THEN <<>>
    ELSE LET m == CHOOSE x \in S : \A y \in S \ {x} : StrLess(x, y)
         IN <<m>> \o SortedStrings(S \ {m})

Elems(q) == {q[k] : k \in 1..Len(q)}

Cap == 20

\* sorted(set(after.unique()) - {"healthy", "dementia", ""})[:20]
Remaining_FromBefore(before, after) ==
    LET r == SortedStrings(Elems(before) \ {Healthy, Dementia, <<>>})
    IN SubSeq(r, 1, IF Len(r) < Cap THEN Len(r) ELSE Cap)

Remaining(before, after) ==
    LET r == SortedStrings(Elems(after) \ {Healthy, Dementia, <<>>})
    IN SubSeq(r, 1, IF Len(r) < Cap THEN Len(r) ELSE Cap)

\* int((before != after).sum())
Changed(before, after) == Cardinality({k \in 1..Len(before) : before[k] # after[k]})

NoInfo == [status |-> "none", changed |-> 0, remaining_other_labels |-> <<>>]

(***************************************************************************)
(* Inputs of align_labels.py: a label column made of a few sample cells    *)
(* followed by a run of distinct unrecognised labels.                      *)
(***************************************************************************)
MaxCells == 2

MaxOver == 1

CellPool == {
    NaNText,
    <<" ", " ">>,
    <<"C", "T">>,
    <<" ", "A", "d", " ">>,
    <<"M", "C", "I">>,
    <<"h", "e", "a", "l", "t", "h", "y">> }

DigitSeq == <<"0", "1", "2", "3", "4", "5", "6", "7", "8", "9">>

\* the unrecognised label "u07", "u21", ...
Unrecognised(n) == <<"u", DigitSeq[(n \div 10) + 1], DigitSeq[(n % 10) + 1]>>

Columns ==
    {base \o [k \in 1..n |-> Unrecognised(IF up THEN k ELSE n + 1 - k)] :
        base \in UNION {[1..m -> CellPool] : m \in 0..MaxCells},
        n \in 0..(Cap + MaxOver), up \in BOOLEAN}

NoFile == [status |-> "missing", col |-> <<>>]

InitAlign ==
    /\ prog = "align"
    /\ pc = "al_start"
    /\ csv_file \in {NoFile, [status |-> "nolabel", col |-> <<>>]}
                    \cup {[status |-> "ok", col |-> c] : c \in Columns}
    /\ dry_run \in BOOLEAN
    /\ df_label = <<>>
    /\ info = NoInfo
    /\ ChatIdle /\ AdIdle /\ CccIdle /\ NormIdle

AlignOthers == UNCHANGED <<chatVars, adVars, cccVars, normVars>>

\* main, lines 86-88: the file does not exist
AlignMissing ==
    /\ AlignOthers
    /\ prog = "align" /\ pc = "al_start" /\ csv_file.status = "missing"
    /\ info' = [NoInfo EXCEPT !.status = "missing"]
    /\ pc' = "al_done"
    /\ UNCHANGED <<prog, csv_file, dry_run, df_label>>

\* process_file, lines 44-45: the file has no label column
AlignSkipped ==
    /\ AlignOthers
    /\ prog = "align" /\ pc = "al_start" /\ csv_file.status = "nolabel"
    /\ info' = [NoInfo EXCEPT !.status = "skipped (no label column)"]
    /\ pc' = "al_done"
    /\ UNCHANGED <<prog, csv_file, dry_run, df_label>>

\* process_file, lines 47-65
AlignProcess ==
    /\ AlignOthers
    /\ prog = "align" /\ pc = "al_start" /\ csv_file.status = "ok"
    /\ df_label' = [k \in 1..Len(csv_file.col) |-> normalize_label(csv_file.col[k])]
    /\ info' = [status |-> "ok",
                changed |-> Changed(Stripped(csv_file.col), Stripped(df_label')),
                remaining_other_labels |-> Remaining(Stripped(csv_file.col), Stripped(df_label'))]
    /\ csv_file' = IF dry_run THEN csv_file ELSE [csv_file EXCEPT !.col = df_label']
    /\ pc' = "al_done"
    /\ UNCHANGED <<prog, dry_run>>

NextAlign == AlignMissing \/ AlignSkipped \/ AlignProcess

SpecAlign == InitAlign /\ [][NextAlign]_vars

(***************************************************************************)
(* normalize_label applied twice to bounded strings                        *)
(***************************************************************************)
MaxLen == 3

NormAlphabet == {" ", "\t", "a", "A", "d", "D", "c", "T", "1"}

SampleLabels == {
    <<"A", "l", "z", "h", "e", "i", "m", "e", "r", "U+2019", "s">>,
    <<"a", "l", "z", "h", "e", "i", "m", "e", "r", "'", "s">>,
    <<"a", "l", "z", "h", "e", "i", "m", "e", "r", "U+00E2", "U+20AC", "U+2122", "s">>,
    <<" ", "C", "o", "n", "t", "r", "o", "l">>,
    <<"H", "E", "A", "L", "T", "H", "Y", " ">>,
    <<"d", "e", "m", "e", "n", "t", "i", "a">>,
    <<"H", "C">>,
    <<"0">>,
    <<" ", "M", "C", "I", " ">>,
    <<"n", "a", "n">> }

InitNorm ==
    /\ prog = "norm"
    /\ pc = "nl_start"
    /\ nl_x \in SampleLabels \cup UNION {[1..n -> NormAlphabet] : n \in 0..MaxLen}
    /\ nl_y = <<>> /\ nl_z = <<>>
    /\ ChatIdle /\ AdIdle /\ CccIdle /\ AlignIdle

NormOthers == UNCHANGED <<chatVars, adVars, cccVars, alignVars>>

NormOnce ==
    /\ NormOthers
    /\ prog = "norm" /\ pc = "nl_start"
    /\ nl_y' = normalize_label(nl_x)
    /\ pc' = "nl_once"
    /\ UNCHANGED <<prog, nl_x, nl_z>>

NormTwice ==
    /\ NormOthers
    /\ prog = "norm" /\ pc = "nl_once"
    /\ nl_z' = normalize_label(nl_y)
    /\ pc' = "nl_twice"
    /\ UNCHANGED <<prog, nl_x, nl_y>>

NextNorm == NormOnce \/ NormTwice

SpecNorm == InitNorm /\ [][NextNorm]_vars

(***************************************************************************)
(* Claims about clean_chat_text                                            *)
(***************************************************************************)
HelloThere == <<"h", "e", "l", "l", "o", " ", "t", "h", "e", "r", "e">>

\* a line with a leading tab or space
LeadingBlank(ln) == StartsWith(ln, "\t") \/ StartsWith(ln, " ")

\* a speaker-turn line *XXX: and whether the flags keep it
IsTurnLine(ln) == SpeakerMatch(RStrip(ln))

TurnIsKept(ln) ==
    \/ Spk(RStrip(ln)) = PAR /\ keep_par
    \/ Spk(RStrip(ln)) = INV /\ keep_inv

\* index of the speaker turn immediately preceding line j of ls (0: none)
TurnBefore(ls, j) ==
    LET S == {k \in 1..(j - 1) : IsTurnLine(ls[k])} IN
    IF S = {} THEN 0 ELSE CHOOSE k \in S : \A m \in S : m <= k

\* line j of ls is a continuation line whose speaker turn was not kept
Orphan(ls, j) ==
    /\ LeadingBlank(ls[j])
    /\ LET t == TurnBefore(ls, j) IN t = 0 \/ ~TurnIsKept(ls[t])

RECURSIVE DropOrphans(_, _)
DropOrphans(ls, j) ==
    IF j > Len(ls) THEN <<>>
    ELSE (IF Orphan(ls, j) THEN <<>> ELSE <<ls[j]>>) \o DropOrphans(ls, j + 1)

\* the loop is about to consume line idx + 1
AtLine == prog = "chat" /\ pc = "chat_loop" /\ idx < Len(lines)

\* C1: a continuation line is appended only if the speaker turn immediately
\* preceding it was kept, and the returned text is the text of the transcript
\* with every continuation line of a discarded turn removed.
C1_ContinuationOnlyForKeptTurn ==
    /\ [][(AtLine /\ Orphan(lines, idx + 1)) => kept' = kept]_vars
    /\ [](prog = "chat" /\ pc = "chat_done" =>
            text = clean_chat_text(
                     Join(DropOrphans(SplitLines(raw), 1), <<"\n">>),
                     keep_par, keep_inv))

\* a finished run in which one continuation line followed a kept turn and was
\* appended, and another followed a discarded turn
C1_Witness ==
    /\ prog = "chat" /\ pc = "chat_done"
    /\ Len(kept) >= 2
    /\ \E j \in 1..Len(lines) : Orphan(lines, j) /\ TurnBefore(lines, j) # 0
    /\ \E j \in 1..Len(lines) : LeadingBlank(lines[j]) /\ ~Orphan(lines, j)
                                /\ TurnBefore(lines, j) = j - 1

C9Example ==
    Join(<< <<"@", "B", "e", "g", "i", "n">>,
            <<"*", "P", "A", "R", ":", "\t", "h", "e", "l", "l", "o", " ", "t", "h", "e", "r", "e">>,
            <<"%", "m", "o", "r", ":", "\t", "n", "o", "u", "n">>,
            <<"*", "I", "N", "V", ":", "\t", "h", "i">> >>, <<"\n">>)

\* C9: a line starting with "@" or "%" appends nothing and leaves the state
\* "not kept"; while the state is "not kept" nothing is appended and the state
\* stays "not kept" until a kept speaker-turn line; the example transcript
\* with the interviewer excluded yields "hello there".
C9_HeaderResetsKeep ==
    /\ [][(AtLine /\ (StartsWith(lines[idx + 1], "@") \/ StartsWith(lines[idx + 1], "%")))
            => (kept' = kept /\ current_keep' = FALSE)]_vars
    /\ [][(AtLine /\ ~current_keep
              /\ ~(IsTurnLine(lines[idx + 1]) /\ TurnIsKept(lines[idx + 1])))
            => (kept' = kept /\ current_keep' = FALSE)]_vars
    /\ [](prog = "chat" /\ pc = "chat_done" /\ raw = C9Example /\ keep_par /\ ~keep_inv
            => text = HelloThere)

\* a finished run in which an annotation line interrupted a kept turn and the
\* continuation line after it was not appended
C9_Witness ==
    /\ prog = "chat" /\ pc = "chat_done"
    /\ Len(lines) >= 3
    /\ IsTurnLine(lines[1]) /\ TurnIsKept(lines[1])
    /\ StartsWith(lines[2], "%")
    /\ LeadingBlank(lines[3]) /\ Strip(lines[3]) # <<>>
    /\ Len(lines) = 3
    /\ kept = <<Utt(RStrip(lines[1]))>>
    /\ text = HelloThere

(***************************************************************************)
(* Claims about the two pipelines                                          *)
(***************************************************************************)
CccEnded == prog = "ccc" /\ pc \in {"ccc_done", "ccc_parse_error", "ccc_key_error"}

\* row k of tmap names a member of the archive
Referenced(k) == InZipIndex(zip, tmap[k].stem)

\* row k of tmap names a member that parses and has text
Extractable(k) ==
    /\ Referenced(k)
    /\ ZipMember(zip, tmap[k].stem).doc.parses
    /\ Strip(extract_text_from_trs(ZipMember(zip, tmap[k].stem).doc)) # <<>>

\* C2: a transcript whose XML does not parse fails alone: when the run has
\* ended, the table is written and holds every labelled transcript that does
\* parse and has text.
C2_UnparsableFailsAlone ==
    (CccEnded /\ \E k \in 1..Len(tmap) :
                    Referenced(k) /\ ~ZipMember(zip, tmap[k].stem).doc.parses)
    => /\ out_csv.written
       /\ \A k \in 1..Len(tmap) :
            (Extractable(k) /\ tmap[k].label # NaN)
            => \E m \in 1..Len(out_csv.data) : out_csv.data[m].filename = tmap[k].stem

UniqueIds(t) == \A a, b \in 1..Len(t) : t[a].filename = t[b].filename => a = b

\* the first row of rs with filename f
FirstWithId(rs, f) ==
    rs[CHOOSE k \in 1..Len(rs) :
         rs[k].filename = f /\ \A m \in 1..(k - 1) : rs[m].filename # f]

\* every row of table t repeats the raw text of the first transcript of its id
FromFirst(t, fs) ==
    \A k \in 1..Len(t) :
        t[k].text_raw = FirstWithId(TranscriptRows(fs), t[k].filename).text_raw

\* C3: every written table has exactly one row per transcript id, the row of
\* the first transcript of that id.
C3_OneRowPerId ==
    /\ train_out.written =>
         /\ UniqueIds(train_out.data)
         /\ FromFirst(train_out.data, train_fs)
         /\ \A r \in {TranscriptRows(train_fs)[k] : k \in 1..Len(TranscriptRows(train_fs))} :
              \E k \in 1..Len(train_out.data) : train_out.data[k].filename = r.filename
    /\ test_out.written =>
         /\ UniqueIds(test_out.data)
         /\ FromFirst(test_out.data, test_fs)
         /\ \A r \in {TranscriptRows(test_fs)[k] : k \in 1..Len(TranscriptRows(test_fs))} :
              \E k \in 1..Len(test_out.data) : test_out.data[k].filename = r.filename
    /\ out_csv.written =>
         /\ UniqueIds(out_csv.data)
         /\ \A k \in 1..Len(out_csv.data) :
              out_csv.data[k].text = FirstWithId(rows, out_csv.data[k].filename).text

\* the order of the claim: dementia (AD) > healthy (ct) > unknown
Priority(l) == CASE l = "AD" -> 3 [] l = "ct" -> 2 [] OTHER -> 1

\* the interviewee rows of the file, before any sorting
Loaded == ParticipantFrame(participants_csv)

\* the labels the rows pf give the normalised name n
LabelsOf(pf, n) == {pf[k].label : k \in {m \in 1..Len(pf) : pf[m].pname_norm = n}}

BestLabel(pf, n) ==
    CHOOSE l \in LabelsOf(pf, n) : \A o \in LabelsOf(pf, n) : Priority(l) >= Priority(o)

\* C4: after the participants are loaded, each normalised name has exactly one
\* row and that row carries the highest-priority label the file gives the
\* name; every transcript linked to the name gets that label.
C4_DuplicateNameKeepsBestLabel ==
    (prog = "ccc" /\ pc # "ccc_start") =>
        LET pf == Loaded
            names == {pf[k].pname_norm : k \in 1..Len(pf)}
        IN /\ \A n \in names :
                 /\ Cardinality({k \in 1..Len(p) : p[k].pname_norm = n}) = 1
                 /\ \A k \in 1..Len(p) : p[k].pname_norm = n => p[k].label = BestLabel(pf, n)
           /\ pc # "ccc_participants" =>
                 \A k \in 1..Len(tmap) :
                     IF tmap[k].iname_norm \in names
                     THEN tmap[k].label = BestLabel(pf, tmap[k].iname_norm)
                     ELSE tmap[k].label = NaN

\* the file lists a healthy row before a dementia row of the same name, and a
\* transcript is linked to that name
C4_Witness ==
    /\ prog = "ccc" /\ pc = "ccc_loop"
    /\ Len(Loaded) = 2
    /\ Loaded[1].pname_norm = Loaded[2].pname_norm
    /\ Loaded[1].label = "ct" /\ Loaded[2].label = "AD"
    /\ \E k \in 1..Len(tmap) : tmap[k].iname_norm = Loaded[1].pname_norm
                               /\ tmap[k].label = "AD"

\* the participant row a written row was linked to
LinkedRow(r) == p[CHOOSE k \in 1..Len(p) : p[k].participant = r.interviewee]

\* C10: every written row has label ct or AD; a transcript whose interviewee
\* matches no participant is labelled unknown and is not written; a matched one
\* is labelled AD exactly when the participant's condition contains "alz"
\* whatever the case, and ct otherwise.
C10_WrittenLabels ==
    /\ out_csv.written => \A k \in 1..Len(out_csv.data) : out_csv.data[k].label \in {"ct", "AD"}
    /\ (prog = "ccc" /\ pc = "ccc_done") =>
          \A k \in 1..Len(out) :
              IF out[k].interviewee = NaNText
              THEN /\ out[k].label = "unknown"
                   /\ \A m \in 1..Len(out_csv.data) : out_csv.data[m].filename # out[k].filename
              ELSE /\ out[k].label =
                        (IF Contains(Lower(LinkedRow(out[k]).condition), Alz) THEN "AD" ELSE "ct")
                   /\ \E m \in 1..Len(out_csv.data) : out_csv.data[m] = out[k]

\* a finished run with an unmatched transcript left out of the file, and a
\* written row whose participant has a condition without "alz"
C10_Witness ==
    /\ prog = "ccc" /\ pc = "ccc_done"
    /\ \E k \in 1..Len(out) : out[k].interviewee = NaNText
    /\ \E k \in 1..Len(out_csv.data) :
          /\ out_csv.data[k].label = "ct"
          /\ ~Contains(Lower(LinkedRow(out_csv.data[k]).condition), Alz)

EmptyText(r) == Strip(r.text) = <<>>

\* every transcript of the built table b without text has its row, still
\* without text, in the written table t
EmptyRowsKept(b, t) ==
    \A k \in 1..Len(b) :
        EmptyText(b[k]) => \E m \in 1..Len(t) : t[m].filename = b[k].filename /\ EmptyText(t[m])

\* C7: the name-based pipeline writes no row without text; the exact-id
\* pipeline writes the row of a transcript without text and counts it in the
\* printed empty text ratio.
C7_EmptyTextAsymmetry ==
    /\ out_csv.written => \A k \in 1..Len(out_csv.data) : ~EmptyText(out_csv.data[k])
    /\ (prog = "adress" /\ pc = "ad_done") =>
          /\ EmptyRowsKept(train_built, train_out.data)
          /\ EmptyRowsKept(test_built, test_out.data)
          /\ train_ratio = <<Cardinality({k \in 1..Len(train_out.data) : EmptyText(train_out.data[k])}),
                             Len(train_out.data)>>
          /\ test_ratio = <<Cardinality({k \in 1..Len(test_out.data) : EmptyText(test_out.data[k])}),
                            Len(test_out.data)>>

\* the exact-id pipeline has written a train table with a row without text
\* next to a row with text
C7_Witness ==
    /\ prog = "adress" /\ pc = "ad_done"
    /\ \E k \in 1..Len(train_out.data) : EmptyText(train_out.data[k])
    /\ \E k \in 1..Len(train_out.data) : ~EmptyText(train_out.data[k])
    /\ train_ratio[1] >= 1

\* metadata rows of file f for the id of row r
MetaFor(f, r) == {k \in 1..Len(f.data) : norm_id(f.data[k].id) = r.filename}

UnmatchedTrain(r) ==
    /\ r.label = "ct" => MetaFor(train_fs.cc_meta, r) = {}
    /\ r.label = "AD" => MetaFor(train_fs.cd_meta, r) = {}

UnmatchedTest(r) == MetaFor(test_fs.meta, r) = {}

\* table t holds exactly one row for the id of r, with r's text and raw text
KeptOnce(t, r) ==
    /\ Cardinality({k \in 1..Len(t) : t[k].filename = r.filename}) = 1
    /\ \A k \in 1..Len(t) :
          t[k].filename = r.filename => t[k].text = r.text /\ t[k].text_raw = r.text_raw

\* C8: a transcript without a matching metadata record keeps its one row
\* through the join, with its label, text and id, and with null metadata
\* fields; the row is in the written table, with the label the transcript
\* provided.
C8_UnmatchedTranscriptKept ==
    /\ (prog = "adress" /\ pc \in {"ad_train_merged", "ad_test_built", "ad_test_merged", "ad_done"}) =>
          \A j \in 1..Len(train_built) :
              UnmatchedTrain(train_built[j]) =>
                  /\ KeptOnce(train_df, train_built[j])
                  /\ \A k \in 1..Len(train_df) :
                        train_df[k].filename = train_built[j].filename =>
                            /\ train_df[k].label = train_built[j].label
                            /\ (train_fs.cc_meta.exists \/ train_fs.cd_meta.exists) =>
                                  /\ train_df[k].age = NaN
                                  /\ train_df[k].gender = NaN
                                  /\ train_df[k].mmse = NaN
    /\ (prog = "adress" /\ pc \in {"ad_test_merged", "ad_done"}) =>
          \A j \in 1..Len(test_built) :
              UnmatchedTest(test_built[j]) =>
                  /\ KeptOnce(test_df, test_built[j])
                  /\ \A k \in 1..Len(test_df) :
                        test_df[k].filename = test_built[j].filename =>
                            /\ (pc = "ad_test_merged" \/ test_built[j].label # None) =>
                                  test_df[k].label = test_built[j].label
                            /\ test_fs.meta.exists =>
                                  test_df[k].age = NaN /\ test_df[k].gender = NaN
    /\ (prog = "adress" /\ pc = "ad_done") =>
          train_out.data = train_df /\ test_out.data = test_df

\* both tables are written; the train table holds a transcript with metadata
\* and one without, the test table a transcript without
C8_Witness ==
    /\ prog = "adress" /\ pc = "ad_done"
    /\ train_fs.cc_meta.exists
    /\ \E j \in 1..Len(train_built) : UnmatchedTrain(train_built[j])
    /\ \E k \in 1..Len(train_out.data) : train_out.data[k].age = NaN
    /\ \E k \in 1..Len(train_out.data) : train_out.data[k].age = "74"

(***************************************************************************)
(* Claims about align_labels.py                                            *)
(***************************************************************************)
Canonical == {Healthy, Dementia}

\* C5 as stated: normalize_label returns a canonical label or the input
\* itself, and applying it twice gives what applying it once gives.
C5_AsStated ==
    (prog = "norm" /\ pc = "nl_twice") =>
        /\ nl_y \in Canonical \/ nl_y = nl_x
        /\ nl_z = nl_y

\* C5 (amended): normalize_label returns a canonical label or the input
\* without its leading and trailing whitespace, and applying it twice gives
\* what applying it once gives.
C5_IdempotentTotal ==
    /\ (prog = "norm" /\ pc \in {"nl_once", "nl_twice"}) =>
          nl_y \in Canonical \/ nl_y = Strip(nl_x)
    /\ (prog = "norm" /\ pc = "nl_twice") => nl_z = nl_y

\* an unrecognised label with blanks around it has gone through twice, and a
\* recognised one in another case
C5_Witness ==
    /\ prog = "norm" /\ pc = "nl_twice"
    /\ nl_x # Strip(nl_x) /\ nl_y = Strip(nl_x) /\ nl_y # <<>> /\ nl_z = nl_y

OtherValues == Elems(df_label) \ {Healthy, Dementia, <<>>}

Reported == Elems(info.remaining_other_labels)

\* C6 as stated: after process_file every value of the label column is
\* healthy or dementia, or is in remaining_other_labels.
C6_AsStated ==
    (prog = "align" /\ info.status = "ok") =>
        \A k \in 1..Len(df_label) : df_label[k] \in Canonical \/ df_label[k] \in Reported

\* C6 (amended): after process_file every value of the label column is
\* healthy, dementia, empty, or another value; remaining_other_labels lists
\* the other values without repetition in sorted order, all of them when
\* there are at most 20 and the first 20 otherwise; the file holds the column
\* unless the run is dry.
C6_RemainingReported ==
    (prog = "align" /\ info.status = "ok") =>
        /\ Reported \subseteq OtherValues
        /\ Len(info.remaining_other_labels) =
              (IF Cardinality(OtherValues) <= Cap THEN Cardinality(OtherValues) ELSE Cap)
        /\ \A a, b \in 1..Len(info.remaining_other_labels) :
              a < b => StrLess(info.remaining_other_labels[a], info.remaining_other_labels[b])
        /\ \A v \in OtherValues \ Reported : \A w \in Reported : StrLess(w, v)
        /\ Cardinality(OtherValues) <= Cap => Reported = OtherValues
        /\ ~dry_run => csv_file.col = df_label

\* the column holds an empty label, a canonical one, and more than 20 distinct
\* other values, of which 20 are reported
C6_Witness ==
    /\ prog = "align" /\ info.status = "ok"
    /\ \E k \in 1..Len(df_label) : df_label[k] = <<>>
    /\ \E k \in 1..Len(df_label) : df_label[k] = Healthy /\ csv_file.col[k] # Healthy
    /\ Cardinality(OtherValues) > Cap
    /\ Len(info.remaining_other_labels) = Cap

====
